---- MODULE Spec2Model ----
(***************************************************************************)
(* PIDNetwork._build_graph (src/01/prague_dataset.py): the pipeline that   *)
(* turns the four GTFS tables (routes, trips, stops, stop_times) into a    *)
(* directed multigraph of stop-name segments weighted by the mean travel   *)
(* time.  One action per statement of _build_graph; the two scans whose    *)
(* intermediate states matter (trips, stops) advance one row per step.     *)
(*                                                                         *)
(* Text that the code parses (clock times, stop_sequence, coordinates) is  *)
(* a sequence of one-character strings, so that int(), float() and         *)
(* split(":") are computed, not assumed.  Identifiers that the code only   *)
(* compares (route_id, trip_id, stop_id, stop_name, zone_id, route_type,   *)
(* direction_id) are strings.  Python floats are modelled as exact         *)
(* rationals [num, den] in lowest terms.                                   *)
(***************************************************************************)
EXTENDS Integers, Sequences, FiniteSets, TLC

VARIABLES
    routes, trips, stops, stop_times,      \* self.routes ... (the parsed tables)
    pc,                                    \* position inside _build_graph
    i,                                     \* row index of the running scan
    selected_route_ids, selected_trips, selected_trip_ids,
    stop_rows, stop_name_by_id, stop_info_by_name,
    selected_stop_times, sorted_stop_times, times_by_trip,
    segment_times, avg_segment_time, graph

vars == <<routes, trips, stops, stop_times, pc, i,
          selected_route_ids, selected_trips, selected_trip_ids,
          stop_rows, stop_name_by_id, stop_info_by_name,
          selected_stop_times, sorted_stop_times, times_by_trip,
          segment_times, avg_segment_time, graph>>

-----------------------------------------------------------------------------
(* Text                                                                      *)

Digits == {"0", "1", "2", "3", "4", "5", "6", "7", "8", "9"}

DigitValue(c) ==
    CASE c = "0" -> 0 [] c = "1" -> 1 [] c = "2" -> 2 [] c = "3" -> 3
      [] c = "4" -> 4 [] c = "5" -> 5 [] c = "6" -> 6 [] c = "7" -> 7
      [] c = "8" -> 8 [] c = "9" -> 9

\* str.split(sep): the fields between the separators; never an empty list.
RECURSIVE SplitFrom(_, _, _)
SplitFrom(text, sep, field) ==
    IF text = <<>> THEN <<field>>
    ELSE IF Head(text) = sep
         THEN <<field>> \o SplitFrom(Tail(text), sep, <<>>)
         ELSE SplitFrom(Tail(text), sep, Append(field, Head(text)))

Split(text, sep) == SplitFrom(text, sep, <<>>)

\* The digits of an unsigned decimal literal, most significant first.
RECURSIVE DigitsValue(_, _)
DigitsValue(text, acc) ==
    IF text = <<>> THEN acc
    ELSE DigitsValue(Tail(text), 10 * acc + DigitValue(Head(text)))

AllDigits(text) == text # <<>> /\ \A k \in 1..Len(text) : text[k] \in Digits

HasSign(text) == text # <<>> /\ Head(text) \in {"+", "-"}

Unsigned(text) == IF HasSign(text) THEN Tail(text) ELSE text

\* int(text) succeeds: an optional sign and at least one digit (over the
\* model's alphabet, which has no blanks and no underscores).
IsIntText(text) == AllDigits(Unsigned(text))

\* int(text) where it succeeds.
IntOf(text) ==
    LET v == DigitsValue(Unsigned(text), 0)
    IN  IF HasSign(text) /\ Head(text) = "-" THEN 0 - v ELSE v

-----------------------------------------------------------------------------
(* Rationals standing for Python floats                                      *)

RECURSIVE GCD(_, _)
GCD(a, b) == IF b = 0 THEN a ELSE GCD(b, a % b)

Abs(n) == IF n < 0 THEN 0 - n ELSE n

\* n/d in lowest terms, d > 0.
Rat(n, d) ==
    LET g == GCD(Abs(n), d)
    IN  [num |-> n \div g, den |-> d \div g]

RatAdd(a, b) == Rat(a.num * b.den + b.num * a.den, a.den * b.den)

RatLess(a, b) == a.num * b.den < b.num * a.den

RECURSIVE Pow10(_)
Pow10(k) == IF k = 0 THEN 1 ELSE 10 * Pow10(k - 1)

\* sum(values) of a list of floats, left to right from 0.
RECURSIVE Sum(_)
Sum(values) ==
    IF values = <<>> THEN Rat(0, 1)
    ELSE RatAdd(Sum(SubSeq(values, 1, Len(values) - 1)), values[Len(values)])

\* float(text) succeeds: optional sign, digits with at most one point and at
\* least one digit (over the model's alphabet).
IsFloatText(text) ==
    LET body  == Unsigned(text)
        parts == Split(body, ".")
    IN  /\ Len(parts) \in {1, 2}
        /\ \A k \in 1..Len(parts) :
              \A j \in 1..Len(parts[k]) : parts[k][j] \in Digits
        /\ \E k \in 1..Len(parts) : parts[k] # <<>>

\* float(text) where it succeeds.
FloatOf(text) ==
    LET body  == Unsigned(text)
        parts == Split(body, ".")
        frac  == IF Len(parts) = 2 THEN parts[2] ELSE <<>>
        v     == DigitsValue(parts[1] \o frac, 0)
        n     == IF HasSign(text) /\ Head(text) = "-" THEN 0 - v ELSE v
    IN  Rat(n, Pow10(Len(frac)))

-----------------------------------------------------------------------------
(* _parse_gtfs_time                                                          *)

None == [tag |-> "None", val |-> 0]

ValueError == [tag |-> "ValueError", val |-> 0]

Int_(n) == [tag |-> "int", val |-> n]

\* PIDNetwork._parse_gtfs_time: None for empty text or a field count other
\* than three; int() raises ValueError on a field that is no integer.
_parse_gtfs_time(time_text) ==
    IF time_text = <<>> THEN None
    ELSE LET parts == Split(time_text, ":")
         IN  IF Len(parts) # 3 THEN None
             ELSE IF \E k \in 1..3 : ~IsIntText(parts[k]) THEN ValueError
             ELSE Int_(IntOf(parts[1]) * 3600 + IntOf(parts[2]) * 60
                       + IntOf(parts[3]))

-----------------------------------------------------------------------------
(* Python dicts as functions                                                 *)

EmptyDict == [k \in {} |-> 0]

\* d[k] = v
Put(d, k, v) == [x \in (DOMAIN d) \cup {k} |-> IF x = k THEN v ELSE d[x]]

Values(d) == {d[k] : k \in DOMAIN d}

-----------------------------------------------------------------------------
(* Route & trip selection                                                    *)

SelectedRouteTypes == {"0", "1"}

\* The set comprehension over self.routes.
SelectedRouteIds(rts) ==
    {rts[k].route_id : k \in {j \in 1..Len(rts) : rts[j].route_type \in SelectedRouteTypes}}

\* Mutant: the last trip seen per key stays.
SelectTripRowLastSeen(sel, row, route_ids) ==
    IF row.route_id \notin route_ids THEN sel
    ELSE Put(sel, <<row.route_id, row.direction_id>>, row.trip_id)

\* One iteration of the loop over self.trips: first trip seen per key stays.
SelectTripRow(sel, row, route_ids) ==
    IF row.route_id \notin route_ids THEN sel
    ELSE LET key == <<row.route_id, row.direction_id>>
         IN  IF key \in DOMAIN sel THEN sel ELSE Put(sel, key, row.trip_id)

-----------------------------------------------------------------------------
(* Stop filter & geocoder                                                    *)

valid_zone_ids == {"0", "P", "B", "0,B", "P,0"}

StopRowKept(row) == row.zone_id \in valid_zone_ids /\ row.stop_name # ""

StopRows(sts) == SelectSeq(sts, StopRowKept)

\* The dict comprehension stop_id -> stop_name: a later row overwrites.
RECURSIVE StopNameById(_)
StopNameById(rows) ==
    IF rows = <<>> THEN EmptyDict
    ELSE LET row  == rows[Len(rows)]
             rest == StopNameById(SubSeq(rows, 1, Len(rows) - 1))
         IN  IF row.stop_id # "" /\ row.stop_name # ""
             THEN Put(rest, row.stop_id, row.stop_name)
             ELSE rest

\* Mutant: a later row of the same name overwrites the entry.
GeocodeRowLastWins(info, row) ==
    IF row.stop_lon = <<>> \/ row.stop_lat = <<>> THEN info
    ELSE IF ~IsFloatText(row.stop_lon) \/ ~IsFloatText(row.stop_lat) THEN info
    ELSE Put(info, row.stop_name,
             [x |-> FloatOf(row.stop_lon), y |-> FloatOf(row.stop_lat)])

\* Mutant: a blank coordinate is read as 0.
GeocodeRowBlankIsZero(info, row) ==
    LET lon == IF row.stop_lon = <<>> THEN <<"0">> ELSE row.stop_lon
        lat == IF row.stop_lat = <<>> THEN <<"0">> ELSE row.stop_lat
    IN  IF row.stop_name \in DOMAIN info THEN info
        ELSE IF ~IsFloatText(lon) \/ ~IsFloatText(lat) THEN info
        ELSE Put(info, row.stop_name, [x |-> FloatOf(lon), y |-> FloatOf(lat)])

\* One iteration of the loop that fills stop_info_by_name.
GeocodeRow(info, row) ==
    IF row.stop_name \in DOMAIN info THEN info
    ELSE IF row.stop_lon = <<>> \/ row.stop_lat = <<>> THEN info
    ELSE IF ~IsFloatText(row.stop_lon) \/ ~IsFloatText(row.stop_lat) THEN info
    ELSE Put(info, row.stop_name,
             [x |-> FloatOf(row.stop_lon), y |-> FloatOf(row.stop_lat)])

-----------------------------------------------------------------------------
(* Segment time aggregator                                                   *)

SelectedStopTimes(sts, trip_ids, name_by_id) ==
    SelectSeq(sts, LAMBDA row : row.trip_id \in trip_ids
                                /\ row.stop_id \in DOMAIN name_by_id)

\* Python's order of the trip ids the model uses (str comparison).
TripIdOrder == <<"T1", "T2", "T3", "T4", "T5">>

TripRank(trip_id) == CHOOSE k \in 1..Len(TripIdOrder) : TripIdOrder[k] = trip_id

\* text a <= text b as Python compares str (digits only).
RECURSIVE TextLeq(_, _)
TextLeq(a, b) ==
    IF a = <<>> THEN TRUE
    ELSE IF b = <<>> THEN FALSE
    ELSE IF Head(a) = Head(b) THEN TextLeq(Tail(a), Tail(b))
    ELSE DigitValue(Head(a)) < DigitValue(Head(b))

\* Mutant: stop_sequence is compared as text.
SortKeyLeqAsText(a, b) ==
    \/ TripRank(a.trip_id) < TripRank(b.trip_id)
    \/ /\ a.trip_id = b.trip_id
       /\ TextLeq(a.stop_sequence, b.stop_sequence)

\* key(a) <= key(b) for key = (trip_id, int(stop_sequence)).
SortKeyLeq(a, b) ==
    \/ TripRank(a.trip_id) < TripRank(b.trip_id)
    \/ /\ a.trip_id = b.trip_id
       /\ IntOf(a.stop_sequence) <= IntOf(b.stop_sequence)

\* row put behind the last element whose key is <= its own (stable).
RECURSIVE InsertSorted(_, _)
InsertSorted(sorted, row) ==
    IF sorted = <<>> THEN <<row>>
    ELSE IF SortKeyLeq(sorted[Len(sorted)], row) THEN Append(sorted, row)
    ELSE Append(InsertSorted(SubSeq(sorted, 1, Len(sorted) - 1), row),
                sorted[Len(sorted)])

\* sorted(selected_stop_times, key=...): the stable sort.
RECURSIVE Sorted(_)
Sorted(rows) ==
    IF rows = <<>> THEN <<>>
    ELSE InsertSorted(Sorted(SubSeq(rows, 1, Len(rows) - 1)), rows[Len(rows)])

\* int(row["stop_sequence"]) raises for some row.
SortRaises(rows) == \E k \in 1..Len(rows) : ~IsIntText(rows[k].stop_sequence)

Visit(row, name_by_id) ==
    [stop_name |-> name_by_id[row.stop_id],
     arrival   |-> row.arrival_time,
     departure |-> row.departure_time]

\* times_by_trip[trip_id].append(visit): the groups in insertion order.
AppendVisit(groups, trip_id, visit) ==
    IF \E k \in 1..Len(groups) : groups[k].trip_id = trip_id
    THEN [k \in 1..Len(groups) |->
            IF groups[k].trip_id = trip_id
            THEN [groups[k] EXCEPT !.rows = Append(@, visit)]
            ELSE groups[k]]
    ELSE Append(groups, [trip_id |-> trip_id, rows |-> <<visit>>])

RECURSIVE TimesByTrip(_, _)
TimesByTrip(rows, name_by_id) ==
    IF rows = <<>> THEN <<>>
    ELSE LET row == rows[Len(rows)]
         IN  AppendVisit(TimesByTrip(SubSeq(rows, 1, Len(rows) - 1), name_by_id),
                         row.trip_id, Visit(row, name_by_id))

\* zip(rows, rows[1:])
Zip(rows) == [k \in 1..(IF Len(rows) = 0 THEN 0 ELSE Len(rows) - 1) |->
                <<rows[k], rows[k + 1]>>]

\* The (current_row, next_row) pairs of every trip, in the order of the two
\* nested loops.
RECURSIVE AllPairs(_)
AllPairs(groups) ==
    IF groups = <<>> THEN <<>>
    ELSE AllPairs(SubSeq(groups, 1, Len(groups) - 1))
         \o Zip(groups[Len(groups)].rows)

\* Mutant: the key is built the wrong way round.
SegmentKeySwapped(from_stop, to_stop) == <<to_stop, from_stop>>

SegmentKey(from_stop, to_stop) == <<from_stop, to_stop>>

\* Mutant: the test for a negative travel time is missing.
SampleKeptAnySign(dep_seconds, arr_seconds) ==
    dep_seconds.tag = "int" /\ arr_seconds.tag = "int"

\* The pair passes both "continue" tests and its travel time is appended.
SampleKept(dep_seconds, arr_seconds) ==
    /\ dep_seconds.tag = "int"
    /\ arr_seconds.tag = "int"
    /\ ~RatLess(Rat(arr_seconds.val - dep_seconds.val, 60), Rat(0, 1))

\* The body of the inner loop for one pair (no ValueError).
AddSample(times, pair) ==
    LET dep_seconds == _parse_gtfs_time(pair[1].departure)
        arr_seconds == _parse_gtfs_time(pair[2].arrival)
        key         == SegmentKey(pair[1].stop_name, pair[2].stop_name)
        travel_time_min == Rat(arr_seconds.val - dep_seconds.val, 60)
    IN  IF ~SampleKept(dep_seconds, arr_seconds) THEN times
        ELSE Put(times, key,
                 Append(IF key \in DOMAIN times THEN times[key] ELSE <<>>,
                        travel_time_min))

RECURSIVE SegmentTimes(_)
SegmentTimes(pairs) ==
    IF pairs = <<>> THEN EmptyDict
    ELSE AddSample(SegmentTimes(SubSeq(pairs, 1, Len(pairs) - 1)),
                   pairs[Len(pairs)])

\* Some pair has a time field on which int() raises.
SegmentRaises(pairs) ==
    \E k \in 1..Len(pairs) :
        \/ _parse_gtfs_time(pairs[k][1].departure).tag = "ValueError"
        \/ _parse_gtfs_time(pairs[k][2].arrival).tag = "ValueError"

\* Mutant: the first sample stands for the pair.
MeanIsFirstSample(values) == values[1]

\* sum(values) / len(values)
Mean(values) ==
    LET total == Sum(values) IN Rat(total.num, total.den * Len(values))

AvgSegmentTime(times) ==
    [pair \in {p \in DOMAIN times : times[p] # <<>>} |-> Mean(times[pair])]

-----------------------------------------------------------------------------
(* Graph builder (networkx.MultiDiGraph)                                      *)

NoAttrs == [k \in {} |-> 0]

\* nx.MultiDiGraph()
EmptyGraph == [nodes |-> {}, attrs |-> EmptyDict, edges |-> <<>>]

\* Mutant: add_edge of a simple DiGraph, where an edge u -> v is replaced.
AddEdgeSimple(G, u, v, w) ==
    [nodes |-> G.nodes \cup {u, v},
     attrs |-> [n \in G.nodes \cup {u, v} |->
                  IF n \in G.nodes THEN G.attrs[n] ELSE NoAttrs],
     edges |-> Append(SelectSeq(G.edges, LAMBDA e : ~(e.from = u /\ e.to = v)),
                      [from |-> u, to |-> v, avg_time_min |-> w])]

\* graph.add_edge(u, v, avg_time_min=w): the endpoints become nodes and a
\* new parallel edge is added, whatever edges u -> v already exist.
AddEdge(G, u, v, w) ==
    [nodes |-> G.nodes \cup {u, v},
     attrs |-> [n \in G.nodes \cup {u, v} |->
                  IF n \in G.nodes THEN G.attrs[n] ELSE NoAttrs],
     edges |-> Append(G.edges, [from |-> u, to |-> v, avg_time_min |-> w])]

\* The second walk over the trips: one add_edge per pair that has a mean.
RECURSIVE BuildEdges(_, _)
BuildEdges(pairs, avg) ==
    IF pairs = <<>> THEN EmptyGraph
    ELSE LET G    == BuildEdges(SubSeq(pairs, 1, Len(pairs) - 1), avg)
             pair == pairs[Len(pairs)]
             key  == <<pair[1].stop_name, pair[2].stop_name>>
         IN  IF key \notin DOMAIN avg THEN G
             ELSE AddEdge(G, pair[1].stop_name, pair[2].stop_name, avg[key])

\* Mutant: every name that has attributes becomes a node.
SetNodeAttributesAdding(G, values) ==
    [G EXCEPT !.nodes = G.nodes \cup DOMAIN values,
              !.attrs = [n \in G.nodes \cup DOMAIN values |->
                           IF n \in DOMAIN values THEN values[n] ELSE G.attrs[n]]]

\* nx.set_node_attributes(graph, values): values of names that are no node
\* of the graph are ignored.
SetNodeAttributes(G, values) ==
    [G EXCEPT !.attrs = [n \in G.nodes |->
                           IF n \in DOMAIN values THEN values[n] ELSE G.attrs[n]]]

-----------------------------------------------------------------------------
(* The feeds                                                                 *)

Route(id, type) == [route_id |-> id, route_type |-> type]

Trip(id, route, dir) == [trip_id |-> id, route_id |-> route, direction_id |-> dir]

Stop(id, name, zone, lon, lat) ==
    [stop_id |-> id, stop_name |-> name, zone_id |-> zone,
     stop_lon |-> lon, stop_lat |-> lat]

StopTime(trip, stop, seq, arr, dep) ==
    [trip_id |-> trip, stop_id |-> stop, stop_sequence |-> seq,
     arrival_time |-> arr, departure_time |-> dep]

DigitChar(n) == CHOOSE c \in Digits : DigitValue(c) = n

\* The decimal text of 0..99.
SeqText(n) == IF n < 10 THEN <<DigitChar(n)>>
              ELSE <<DigitChar(n \div 10), DigitChar(n % 10)>>

Blank == <<>>

T0759 == <<"0", "7", ":", "5", "9", ":", "0", "0">>

T0800 == <<"0", "8", ":", "0", "0", ":", "0", "0">>

T0804 == <<"0", "8", ":", "0", "4", ":", "0", "0">>

T0810 == <<"0", "8", ":", "1", "0", ":", "0", "0">>

TwoFields == <<"0", "8", ":", "0", "0">>

NotNumeric == <<"0", "8", ":", "x", "x", ":", "0", "0">>

Lon144 == <<"1", "4", ".", "4">>

Lon145 == <<"1", "4", ".", "5">>

Lat501 == <<"5", "0", ".", "1">>

Lat500 == <<"5", "0">>

NotFloat == <<"1", "x">>

\* A tram route, a metro route and a bus route.
BaseRoutes == <<Route("R1", "0"), Route("R2", "1"), Route("R3", "3")>>

\* T3 repeats the key of T1.
BaseTrips == <<Trip("T1", "R1", "0"), Trip("T2", "R2", "0"), Trip("T3", "R1", "0")>>

\* B has no longitude; C lies outside the accepted zones.
BaseStops == <<Stop("S1", "A", "P", Lon144, Lat501),
               Stop("S2", "B", "0", Blank, Lat500),
               Stop("S3", "C", "X", Lon145, Lat501)>>

\* Rows of the unselected trip T3 and a visit of the rejected stop S3.
ExtraStopTimes == <<StopTime("T3", "S1", SeqText(1), T0800, T0800),
                    StopTime("T3", "S2", SeqText(2), T0810, T0810),
                    StopTime("T1", "S3", SeqText(9), T0810, T0810)>>

NumStopTimes == 4

TripOneLen == 2

TimeTexts == {Blank, T0800, T0804, T0810}

\* Row k of the varied part: trip T1 for the first TripOneLen rows, then T2;
\* stop_sequence k; the vehicle leaves when it arrives.
VariedStopTimes(stop_of, time_of) ==
    [k \in 1..NumStopTimes |->
        StopTime(IF k <= TripOneLen THEN "T1" ELSE "T2", stop_of[k], SeqText(k),
                 time_of[k], time_of[k])]

Start ==
    /\ pc = "select_routes"
    /\ i = 0
    /\ selected_route_ids = {}
    /\ selected_trips = EmptyDict
    /\ selected_trip_ids = {}
    /\ stop_rows = <<>>
    /\ stop_name_by_id = EmptyDict
    /\ stop_info_by_name = EmptyDict
    /\ selected_stop_times = <<>>
    /\ sorted_stop_times = <<>>
    /\ times_by_trip = <<>>
    /\ segment_times = EmptyDict
    /\ avg_segment_time = EmptyDict
    /\ graph = EmptyGraph

\* Feeds that vary the stop_times of two selected trips.
Init ==
    /\ routes = BaseRoutes
    /\ trips = BaseTrips
    /\ stops = BaseStops
    /\ \E stop_of \in [1..NumStopTimes -> {"S1", "S2"}],
          time_of \in [1..NumStopTimes -> TimeTexts] :
          stop_times = VariedStopTimes(stop_of, time_of) \o ExtraStopTimes
    /\ Start

-----------------------------------------------------------------------------
(* _build_graph, statement by statement                                      *)

SelectRoutes ==
    /\ pc = "select_routes"
    /\ selected_route_ids' = SelectedRouteIds(routes)
    /\ i' = 1
    /\ pc' = "select_trips"
    /\ UNCHANGED <<routes, trips, stops, stop_times, selected_trips,
                   selected_trip_ids, stop_rows, stop_name_by_id,
                   stop_info_by_name, selected_stop_times, sorted_stop_times,
                   times_by_trip, segment_times, avg_segment_time, graph>>

SelectTrip ==
    /\ pc = "select_trips"
    /\ i <= Len(trips)
    /\ selected_trips' = SelectTripRow(selected_trips, trips[i], selected_route_ids)
    /\ i' = i + 1
    /\ UNCHANGED <<routes, trips, stops, stop_times, pc, selected_route_ids,
                   selected_trip_ids, stop_rows, stop_name_by_id,
                   stop_info_by_name, selected_stop_times, sorted_stop_times,
                   times_by_trip, segment_times, avg_segment_time, graph>>

SelectTripIds ==
    /\ pc = "select_trips"
    /\ i > Len(trips)
    /\ selected_trip_ids' = Values(selected_trips)
    /\ pc' = "filter_stops"
    /\ UNCHANGED <<routes, trips, stops, stop_times, i, selected_route_ids,
                   selected_trips, stop_rows, stop_name_by_id,
                   stop_info_by_name, selected_stop_times, sorted_stop_times,
                   times_by_trip, segment_times, avg_segment_time, graph>>

FilterStops ==
    /\ pc = "filter_stops"
    /\ stop_rows' = StopRows(stops)
    /\ pc' = "stop_names"
    /\ UNCHANGED <<routes, trips, stops, stop_times, i, selected_route_ids,
                   selected_trips, selected_trip_ids, stop_name_by_id,
                   stop_info_by_name, selected_stop_times, sorted_stop_times,
                   times_by_trip, segment_times, avg_segment_time, graph>>

StopNames ==
    /\ pc = "stop_names"
    /\ stop_name_by_id' = StopNameById(stop_rows)
    /\ i' = 1
    /\ pc' = "geocode"
    /\ UNCHANGED <<routes, trips, stops, stop_times, selected_route_ids,
                   selected_trips, selected_trip_ids, stop_rows,
                   stop_info_by_name, selected_stop_times, sorted_stop_times,
                   times_by_trip, segment_times, avg_segment_time, graph>>

Geocode ==
    /\ pc = "geocode"
    /\ i <= Len(stop_rows)
    /\ stop_info_by_name' = GeocodeRow(stop_info_by_name, stop_rows[i])
    /\ i' = i + 1
    /\ UNCHANGED <<routes, trips, stops, stop_times, pc, selected_route_ids,
                   selected_trips, selected_trip_ids, stop_rows,
                   stop_name_by_id, selected_stop_times, sorted_stop_times,
                   times_by_trip, segment_times, avg_segment_time, graph>>

FilterStopTimes ==
    /\ pc = "geocode"
    /\ i > Len(stop_rows)
    /\ selected_stop_times' =
          SelectedStopTimes(stop_times, selected_trip_ids, stop_name_by_id)
    /\ pc' = "sort"
    /\ UNCHANGED <<routes, trips, stops, stop_times, i, selected_route_ids,
                   selected_trips, selected_trip_ids, stop_rows,
                   stop_name_by_id, stop_info_by_name, sorted_stop_times,
                   times_by_trip, segment_times, avg_segment_time, graph>>

\* sorted(...): a stop_sequence that is no integer raises ValueError out of
\* _build_graph.
SortStopTimes ==
    /\ pc = "sort"
    /\ IF SortRaises(selected_stop_times)
       THEN pc' = "raised" /\ UNCHANGED sorted_stop_times
       ELSE pc' = "group" /\ sorted_stop_times' = Sorted(selected_stop_times)
    /\ UNCHANGED <<routes, trips, stops, stop_times, i, selected_route_ids,
                   selected_trips, selected_trip_ids, stop_rows,
                   stop_name_by_id, stop_info_by_name, selected_stop_times,
                   times_by_trip, segment_times, avg_segment_time, graph>>

GroupByTrip ==
    /\ pc = "group"
    /\ times_by_trip' = TimesByTrip(sorted_stop_times, stop_name_by_id)
    /\ pc' = "segment_times"
    /\ UNCHANGED <<routes, trips, stops, stop_times, i, selected_route_ids,
                   selected_trips, selected_trip_ids, stop_rows,
                   stop_name_by_id, stop_info_by_name, selected_stop_times,
                   sorted_stop_times, segment_times, avg_segment_time, graph>>

\* The loop that fills segment_times: int() on a time field that is no
\* integer raises ValueError out of _build_graph.
CollectSegmentTimes ==
    /\ pc = "segment_times"
    /\ IF SegmentRaises(AllPairs(times_by_trip))
       THEN pc' = "raised" /\ UNCHANGED segment_times
       ELSE pc' = "average"
            /\ segment_times' = SegmentTimes(AllPairs(times_by_trip))
    /\ UNCHANGED <<routes, trips, stops, stop_times, i, selected_route_ids,
                   selected_trips, selected_trip_ids, stop_rows,
                   stop_name_by_id, stop_info_by_name, selected_stop_times,
                   sorted_stop_times, times_by_trip, avg_segment_time, graph>>

Average ==
    /\ pc = "average"
    /\ avg_segment_time' = AvgSegmentTime(segment_times)
    /\ pc' = "edges"
    /\ UNCHANGED <<routes, trips, stops, stop_times, i, selected_route_ids,
                   selected_trips, selected_trip_ids, stop_rows,
                   stop_name_by_id, stop_info_by_name, selected_stop_times,
                   sorted_stop_times, times_by_trip, segment_times, graph>>

AddEdges ==
    /\ pc = "edges"
    /\ graph' = BuildEdges(AllPairs(times_by_trip), avg_segment_time)
    /\ pc' = "node_attrs"
    /\ UNCHANGED <<routes, trips, stops, stop_times, i, selected_route_ids,
                   selected_trips, selected_trip_ids, stop_rows,
                   stop_name_by_id, stop_info_by_name, selected_stop_times,
                   sorted_stop_times, times_by_trip, segment_times,
                   avg_segment_time>>

\* set_node_attributes, then return graph.
AttachCoordinates ==
    /\ pc = "node_attrs"
    /\ graph' = SetNodeAttributes(graph, stop_info_by_name)
    /\ pc' = "done"
    /\ UNCHANGED <<routes, trips, stops, stop_times, i, selected_route_ids,
                   selected_trips, selected_trip_ids, stop_rows,
                   stop_name_by_id, stop_info_by_name, selected_stop_times,
                   sorted_stop_times, times_by_trip, segment_times,
                   avg_segment_time>>

Next ==
    \/ SelectRoutes
    \/ SelectTrip
    \/ SelectTripIds
    \/ FilterStops
    \/ StopNames
    \/ Geocode
    \/ FilterStopTimes
    \/ SortStopTimes
    \/ GroupByTrip
    \/ CollectSegmentTimes
    \/ Average
    \/ AddEdges
    \/ AttachCoordinates

Spec == Init /\ [][Next]_vars

-----------------------------------------------------------------------------
(* Further feeds                                                             *)

\* Both directions between S1 and S2 on T1 and T2, T2 going on to S3 in no
\* time, and the trip T3.
BaseStopTimes == <<StopTime("T1", "S1", SeqText(1), T0800, T0800),
                   StopTime("T1", "S2", SeqText(2), T0804, T0804),
                   StopTime("T2", "S2", SeqText(1), T0800, T0800),
                   StopTime("T2", "S1", SeqText(2), T0810, T0810),
                   StopTime("T2", "S3", SeqText(3), T0810, T0810),
                   StopTime("T3", "S3", SeqText(1), T0800, T0800),
                   StopTime("T3", "S1", SeqText(2), T0810, T0810)>>

NumTrips == 3

RouteTypes == {"0", "1", "3"}

DirectionIds == {"", "0", "1"}

\* Feeds that vary the routes' types and the trips' routes and directions.
InitSelector ==
    /\ \E type_of \in [{"R1", "R2"} -> RouteTypes] :
          routes = <<Route("R1", type_of["R1"]), Route("R2", type_of["R2"])>>
    /\ \E route_of \in [1..NumTrips -> {"R1", "R2"}],
          dir_of \in [1..NumTrips -> DirectionIds] :
          trips = [k \in 1..NumTrips |->
                     Trip(TripIdOrder[k], route_of[k], dir_of[k])]
    /\ stops = BaseStops
    /\ stop_times = BaseStopTimes
    /\ Start

SpecSelector == InitSelector /\ [][Next]_vars

MalformedTimeTexts == {Blank, TwoFields, NotNumeric}

\* Feeds whose stop_times carry malformed time texts: the rows of Init, the
\* stops alternating between S1 and S2.
InitMalformed ==
    /\ routes = BaseRoutes
    /\ trips = BaseTrips
    /\ stops = BaseStops
    /\ \E time_of \in [1..NumStopTimes -> TimeTexts \cup MalformedTimeTexts] :
          stop_times =
            VariedStopTimes([k \in 1..NumStopTimes |->
                               IF k % 2 = 1 THEN "S1" ELSE "S2"], time_of)
            \o ExtraStopTimes
    /\ Start

SpecMalformed == InitMalformed /\ [][Next]_vars

\* Feeds whose two trips run between S1 and S2 in either direction, with
\* or without a time at each visit.
InitDirections ==
    /\ routes = BaseRoutes
    /\ trips = BaseTrips
    /\ stops = BaseStops
    /\ \E stop_of \in [1..NumStopTimes -> {"S1", "S2"}],
          time_of \in [1..NumStopTimes -> {Blank, T0800, T0810}] :
          stop_times = VariedStopTimes(stop_of, time_of) \o ExtraStopTimes
    /\ Start

SpecDirections == InitDirections /\ [][Next]_vars

NumStops == 3

StopIds == <<"S1", "S2", "S3", "S4", "S5">>

\* <<stop_lon, stop_lat>>
CoordTexts == {<<Blank, Lat500>>, <<NotFloat, Lat500>>,
               <<Lon144, Lat501>>, <<Lon145, Lat500>>}

\* Feeds that vary the stops' names, zones and coordinates; the last stop
\* row has no name.
InitGeocoder ==
    /\ routes = BaseRoutes
    /\ trips = BaseTrips
    /\ \E name_of \in [1..NumStops -> {"A", "B"}],
          zone_of \in [1..NumStops -> {"P", "X"}],
          coord_of \in [1..NumStops -> CoordTexts] :
          stops = [k \in 1..NumStops |->
                     Stop(StopIds[k], name_of[k], zone_of[k],
                          coord_of[k][1], coord_of[k][2])]
                  \o <<Stop("S9", "", "P", Lon144, Lat501)>>
    /\ stop_times = BaseStopTimes
    /\ Start

SpecGeocoder == InitGeocoder /\ [][Next]_vars

NumSeqRows == 3

Seq2 == <<"2">>

Seq10 == <<"1", "0">>

Seq3 == <<"3">>

SeqTexts == {Seq2, Seq10, Seq3, NotFloat}

\* The times of the rows, one per row, so that every row is told apart.
RowTimes == <<T0800, T0804, T0810, T0759, TwoFields>>

\* Feeds that vary the trip and the stop_sequence of the stop_times rows.
InitOrdering ==
    /\ routes = BaseRoutes
    /\ trips = BaseTrips
    /\ stops = BaseStops
    /\ \E trip_of \in [1..NumSeqRows -> {"T1", "T2", "T3"}],
          seq_of \in [1..NumSeqRows -> SeqTexts] :
          stop_times = [k \in 1..NumSeqRows |->
                          StopTime(trip_of[k], IF k % 2 = 1 THEN "S1" ELSE "S2",
                                   seq_of[k], RowTimes[k], RowTimes[k])]
    /\ Start

SpecOrdering == InitOrdering /\ [][Next]_vars

-----------------------------------------------------------------------------
(* What the claims speak about                                               *)

Returned == pc = "done"

AfterSegments == pc \in {"average", "edges", "node_attrs", "done"}

StopNamesOfFeed == {stops[k].stop_name : k \in 1..Len(stops)}

\* <<g, k>>: in the g-th trip of times_by_trip the k-th visit is at u and
\* the next one at v.
Occurrences(u, v) ==
    UNION {{<<g, k>> : k \in {j \in 1..(Len(times_by_trip[g].rows) - 1) :
                                /\ times_by_trip[g].rows[j].stop_name = u
                                /\ times_by_trip[g].rows[j + 1].stop_name = v}}
           : g \in 1..Len(times_by_trip)}

Departure(o) == times_by_trip[o[1]].rows[o[2]].departure

Arrival(o) == times_by_trip[o[1]].rows[o[2] + 1].arrival

\* Seconds from leaving the first stop to reaching the second.
Elapsed(o) ==
    _parse_gtfs_time(Arrival(o)).val - _parse_gtfs_time(Departure(o)).val

Parseable(o) ==
    /\ _parse_gtfs_time(Departure(o)).tag = "int"
    /\ _parse_gtfs_time(Arrival(o)).tag = "int"

Surviving(u, v) == {o \in Occurrences(u, v) : Parseable(o) /\ Elapsed(o) >= 0}

RECURSIVE TotalElapsed(_)
TotalElapsed(S) ==
    IF S = {} THEN 0
    ELSE LET o == CHOOSE x \in S : TRUE
         IN  Elapsed(o) + TotalElapsed(S \ {o})

EdgesBetween(G, u, v) ==
    {k \in 1..Len(G.edges) : G.edges[k].from = u /\ G.edges[k].to = v}

\* Empty, another field count than three, or a field that is no integer.
Malformed(text) ==
    \/ text = <<>>
    \/ Len(Split(text, ":")) # 3
    \/ \E k \in 1..Len(Split(text, ":")) : ~IsIntText(Split(text, ":")[k])

MalformedOccurrences(u, v) ==
    {o \in Occurrences(u, v) : Malformed(Departure(o)) \/ Malformed(Arrival(o))}

SampleCount(u, v) ==
    IF <<u, v>> \in DOMAIN segment_times THEN Len(segment_times[<<u, v>>]) ELSE 0

-----------------------------------------------------------------------------
(* C1 *)

\* C1: malformed time text is a soft failure: whenever a consecutive pair of
\* a selected trip has a malformed departure or arrival text, _build_graph
\* does not raise, and the pair occurrence adds no sample to segment_times.
C1_MalformedIsSoft ==
    \A u \in StopNamesOfFeed, v \in StopNamesOfFeed :
        MalformedOccurrences(u, v) # {} =>
            /\ pc # "raised"
            /\ AfterSegments =>
                 SampleCount(u, v)
                   <= Cardinality(Occurrences(u, v) \ MalformedOccurrences(u, v))

-----------------------------------------------------------------------------
(* C2 *)

\* C2 as claimed: the returned graph has at most one edge per ordered pair
\* of stop names.
C2_AtMostOneEdge ==
    Returned =>
        \A u \in StopNamesOfFeed, v \in StopNamesOfFeed :
            Cardinality(EdgesBetween(graph, u, v)) <= 1

\* C2 amended: the returned graph has one edge u -> v per occurrence of u
\* immediately followed by v in the selected trips when the pair has a
\* surviving sample and none otherwise, and parallel edges carry one weight.
C2_OneEdgePerOccurrence ==
    Returned =>
        \A u \in StopNamesOfFeed, v \in StopNamesOfFeed :
            /\ Cardinality(EdgesBetween(graph, u, v)) =
                 IF Surviving(u, v) # {} THEN Cardinality(Occurrences(u, v)) ELSE 0
            /\ \A j \in EdgesBetween(graph, u, v), k \in EdgesBetween(graph, u, v) :
                 graph.edges[j].avg_time_min = graph.edges[k].avg_time_min

\* Two trips run A -> B and the graph holds two parallel edges A -> B.
C2_Witness ==
    /\ Returned
    /\ Cardinality(EdgesBetween(graph, "A", "B")) = 2
    /\ \E o \in Occurrences("A", "B"), p \in Occurrences("A", "B") : o[1] # p[1]

-----------------------------------------------------------------------------
(* C3 *)

\* C3: every edge u -> v of the returned graph carries the arithmetic mean
\* of all surviving samples of (u, v) over all selected trips.
C3_EdgeCarriesMean ==
    Returned =>
        \A k \in 1..Len(graph.edges) :
            LET e == graph.edges[k]
                S == Surviving(e.from, e.to)
            IN  /\ S # {}
                /\ e.avg_time_min = Rat(TotalElapsed(S), 60 * Cardinality(S))

\* Two trips give 4.0 and 6.0 minutes for A -> B and both edges carry 5.0.
C3_Witness ==
    /\ Returned
    /\ {Elapsed(o) : o \in Surviving("A", "B")} = {240, 360}
    /\ Cardinality(Surviving("A", "B")) = 2
    /\ \E o \in Surviving("A", "B"), p \in Surviving("A", "B") : o[1] # p[1]
    /\ Cardinality(EdgesBetween(graph, "A", "B")) = 2
    /\ \A k \in EdgesBetween(graph, "A", "B") :
          graph.edges[k].avg_time_min = Rat(5, 1)

-----------------------------------------------------------------------------
(* C7 *)

\* C7: an occurrence that arrives before it left adds no sample (the samples
\* of a pair are exactly its surviving occurrences, none clamped to 0); a
\* pair all of whose occurrences are negative or unparseable has no edge;
\* every edge weight is >= 0.
C7_NegativeDropped ==
    /\ AfterSegments =>
         \A u \in StopNamesOfFeed, v \in StopNamesOfFeed :
            /\ SampleCount(u, v) = Cardinality(Surviving(u, v))
            /\ \A k \in 1..SampleCount(u, v) :
                  \E o \in Surviving(u, v) :
                      segment_times[<<u, v>>][k] = Rat(Elapsed(o), 60)
    /\ Returned =>
         /\ \A u \in StopNamesOfFeed, v \in StopNamesOfFeed :
               Surviving(u, v) = {} => EdgesBetween(graph, u, v) = {}
         /\ \A k \in 1..Len(graph.edges) :
               ~RatLess(graph.edges[k].avg_time_min, Rat(0, 1))

\* B -> A was only seen arriving before leaving: no sample, no edge.
C7_Witness ==
    /\ Returned
    /\ \E o \in Occurrences("B", "A") : Parseable(o) /\ Elapsed(o) < 0
    /\ \A o \in Occurrences("B", "A") : Parseable(o) /\ Elapsed(o) < 0
    /\ SampleCount("B", "A") = 0
    /\ EdgesBetween(graph, "B", "A") = {}
    /\ graph.edges # <<>>

-----------------------------------------------------------------------------
(* C10 *)

\* C10: every node of the returned graph is an endpoint of an edge and the
\* name of a stop row in an accepted zone; a geocoded name that is no
\* endpoint of an edge is not a node.
C10_NodesAreEndpoints ==
    Returned =>
        \A n \in graph.nodes :
            /\ \E k \in 1..Len(graph.edges) :
                  n \in {graph.edges[k].from, graph.edges[k].to}
            /\ \E k \in 1..Len(stops) :
                  stops[k].stop_name = n /\ stops[k].zone_id \in valid_zone_ids

\* A is geocoded and visited, but no emitted edge touches it: no node A.
C10_Witness ==
    /\ Returned
    /\ "A" \in DOMAIN stop_info_by_name
    /\ \E g \in 1..Len(times_by_trip) : \E k \in 1..Len(times_by_trip[g].rows) :
          times_by_trip[g].rows[k].stop_name = "A"
    /\ "A" \notin graph.nodes
    /\ graph.nodes # {}

-----------------------------------------------------------------------------
(* C8 *)

\* What the aggregator and the graph builder make of per-trip visits.
GraphOf(groups) ==
    SetNodeAttributes(
        BuildEdges(AllPairs(groups), AvgSegmentTime(SegmentTimes(AllPairs(groups)))),
        stop_info_by_name)

WeightsBetween(G, u, v) == {G.edges[k].avg_time_min : k \in EdgesBetween(G, u, v)}

SameEdges(G, H, u, v) ==
    /\ Cardinality(EdgesBetween(G, u, v)) = Cardinality(EdgesBetween(H, u, v))
    /\ WeightsBetween(G, u, v) = WeightsBetween(H, u, v)

\* Time texts on which _parse_gtfs_time does not raise.
QuietTimeTexts ==
    {t \in TimeTexts \cup MalformedTimeTexts : _parse_gtfs_time(t).tag # "ValueError"}

VisitedNames ==
    UNION {{times_by_trip[g].rows[k].stop_name : k \in 1..Len(times_by_trip[g].rows)}
           : g \in 1..Len(times_by_trip)}

WithDeparture(groups, g, k, t) == [groups EXCEPT ![g].rows[k].departure = t]

WithArrival(groups, g, k, t) == [groups EXCEPT ![g].rows[k].arrival = t]

\* C8: for stop names a # b the edges a -> b (their number and weight) stay
\* what they are when the time of any b -> a occurrence is changed, added or
\* removed: a departure from b or an arrival at a, the two texts a b -> a
\* sample is made of, can be replaced by any text without changing a -> b.
C8_DirectionalAsymmetry ==
    Returned =>
        \A g \in 1..Len(times_by_trip) :
            \A k \in 1..Len(times_by_trip[g].rows) :
                \A t \in QuietTimeTexts :
                    LET name     == times_by_trip[g].rows[k].stop_name
                        departed == GraphOf(WithDeparture(times_by_trip, g, k, t))
                        arrived  == GraphOf(WithArrival(times_by_trip, g, k, t))
                    IN  \A other \in VisitedNames \ {name} :
                          /\ SameEdges(graph, departed, other, name)
                          /\ SameEdges(graph, arrived, name, other)

\* A -> B and B -> A were both sampled, with different means, and each edge
\* carries the mean of its own direction.
C8_Witness ==
    /\ Returned
    /\ Surviving("A", "B") # {}
    /\ Surviving("B", "A") # {}
    /\ WeightsBetween(graph, "A", "B") =
         {Rat(TotalElapsed(Surviving("A", "B")), 60 * Cardinality(Surviving("A", "B")))}
    /\ WeightsBetween(graph, "A", "B") # WeightsBetween(graph, "B", "A")

-----------------------------------------------------------------------------
(* C5 *)

\* The trip rows scanned so far.
TripsScanned ==
    IF pc = "select_routes" THEN 0
    ELSE IF pc = "select_trips" THEN i - 1 ELSE Len(trips)

RouteQualifies(route_id) ==
    \E k \in 1..Len(routes) :
        routes[k].route_id = route_id /\ routes[k].route_type \in {"0", "1"}

TripRowsOfKey(key, n) ==
    {k \in 1..n : /\ trips[k].route_id = key[1]
                  /\ trips[k].direction_id = key[2]
                  /\ RouteQualifies(key[1])}

Least(S) == CHOOSE k \in S : \A m \in S : k <= m

\* C5: at every point of the scan over the trips, and after it,
\* selected_trips maps exactly the keys (route_id, direction_id) of the
\* scanned trips on routes of type "0" or "1", each to the trip_id of the
\* earliest scanned trip row with that key; so no later row changes a key.
C5_FirstSeenWins ==
    pc # "select_routes" =>
        /\ DOMAIN selected_trips =
             {key \in {<<trips[k].route_id, trips[k].direction_id>> : k \in 1..Len(trips)} :
                 TripRowsOfKey(key, TripsScanned) # {}}
        /\ \A key \in DOMAIN selected_trips :
             selected_trips[key] = trips[Least(TripRowsOfKey(key, TripsScanned))].trip_id

\* The scan is over, two trips shared a key and the earlier one was kept;
\* a trip on a route of another type left no key.
C5_Witness ==
    /\ pc = "filter_stops"
    /\ \E j \in 1..Len(trips), k \in 1..Len(trips) :
          /\ j < k
          /\ trips[j].route_id = trips[k].route_id
          /\ trips[j].direction_id = trips[k].direction_id
          /\ <<trips[j].route_id, trips[j].direction_id>> \in DOMAIN selected_trips
          /\ selected_trips[<<trips[j].route_id, trips[j].direction_id>>]
               = trips[j].trip_id
    /\ \E k \in 1..Len(trips) :
          <<trips[k].route_id, trips[k].direction_id>> \notin DOMAIN selected_trips

-----------------------------------------------------------------------------
(* C9 and C4 *)

StopsScanned ==
    IF pc \in {"select_routes", "select_trips", "filter_stops", "stop_names"}
    THEN 0
    ELSE IF pc = "geocode" THEN i - 1 ELSE Len(stop_rows)

HasCoordinates(row) ==
    /\ row.stop_lon # <<>> /\ row.stop_lat # <<>>
    /\ IsFloatText(row.stop_lon) /\ IsFloatText(row.stop_lat)

Geocodable(name, n) ==
    {k \in 1..n : stop_rows[k].stop_name = name /\ HasCoordinates(stop_rows[k])}

\* C9: at every point of the scan over the filtered stops, and after it,
\* stop_info_by_name holds, for exactly the names that have a scanned row
\* with two parseable coordinates, the coordinates of the earliest such row:
\* rows with blank or unparseable coordinates do not block a later row and
\* no later row overwrites an entry.
C9_FirstValidWins ==
    /\ pc \notin {"select_routes", "select_trips", "filter_stops"} =>
         stop_rows = SelectSeq(stops, LAMBDA row :
                         row.zone_id \in valid_zone_ids /\ row.stop_name # "")
    /\ DOMAIN stop_info_by_name =
         {name \in StopNamesOfFeed : Geocodable(name, StopsScanned) # {}}
    /\ \A name \in DOMAIN stop_info_by_name :
         LET row == stop_rows[Least(Geocodable(name, StopsScanned))]
         IN  stop_info_by_name[name] =
               [x |-> FloatOf(row.stop_lon), y |-> FloatOf(row.stop_lat)]

\* Three rows of one name: the first has no longitude, the second and the
\* third have different coordinates, and the second row's are kept.
C9_Witness ==
    /\ pc = "sort"
    /\ Len(stop_rows) >= 3
    /\ \A k \in 1..3 : stop_rows[k].stop_name = "A"
    /\ stop_rows[1].stop_lon = <<>>
    /\ HasCoordinates(stop_rows[2]) /\ HasCoordinates(stop_rows[3])
    /\ stop_rows[2].stop_lon # stop_rows[3].stop_lon
    /\ stop_info_by_name["A"].x = FloatOf(stop_rows[2].stop_lon)

\* The stop row is an end of two consecutive visits of a selected trip whose
\* travel time survives.
StopIsSegmentEnd(row) ==
    \E k \in 1..(Len(sorted_stop_times) - 1) :
        LET cur == sorted_stop_times[k]
            nxt == sorted_stop_times[k + 1]
            dep == _parse_gtfs_time(cur.departure_time)
            arr == _parse_gtfs_time(nxt.arrival_time)
        IN  /\ cur.trip_id = nxt.trip_id
            /\ row.stop_id \in {cur.stop_id, nxt.stop_id}
            /\ dep.tag = "int" /\ arr.tag = "int" /\ arr.val >= dep.val

FilteredBlankLon ==
    {k \in 1..Len(stops) : /\ stops[k].zone_id \in valid_zone_ids
                           /\ stops[k].stop_name # ""
                           /\ stops[k].stop_lon = <<>>}

HasPosition(name) == DOMAIN graph.attrs[name] \cap {"x", "y"} # {}

\* C4 as claimed: a filtered stop row with a blank stop_lon that is an end
\* of a segment with a valid sample has its name as a node, and the node
\* has neither x nor y.
C4_BlankLonNoPosition ==
    Returned =>
        \A k \in FilteredBlankLon :
            StopIsSegmentEnd(stops[k]) =>
                /\ stops[k].stop_name \in graph.nodes
                /\ ~HasPosition(stops[k].stop_name)

\* C4 amended: such a stop's name is a node, and the node has neither x nor
\* y unless some filtered stop row of the same name has two parseable
\* coordinates.
C4_BlankLonNoPositionUnlessNamesake ==
    Returned =>
        \A k \in FilteredBlankLon :
            StopIsSegmentEnd(stops[k]) =>
                /\ stops[k].stop_name \in graph.nodes
                /\ (\A j \in 1..Len(stops) :
                       ~(/\ stops[j].zone_id \in valid_zone_ids
                         /\ stops[j].stop_name = stops[k].stop_name
                         /\ HasCoordinates(stops[j])))
                   => ~HasPosition(stops[k].stop_name)

\* A visited stop without longitude whose name no other row geocodes is a
\* node without position, next to a node that has one.
C4_Witness ==
    /\ Returned
    /\ \E k \in FilteredBlankLon :
          /\ StopIsSegmentEnd(stops[k])
          /\ stops[k].stop_name \in graph.nodes
          /\ ~HasPosition(stops[k].stop_name)
    /\ \E n \in graph.nodes : HasPosition(n)

-----------------------------------------------------------------------------
(* C6 *)

AfterGrouping == pc \in {"segment_times", "average", "edges", "node_attrs", "done"}

\* The retained stop_times rows of a trip, in source order.
RetainedRows(trip_id) ==
    SelectSeq(stop_times, LAMBDA row : /\ row.trip_id = trip_id
                                       /\ row.trip_id \in selected_trip_ids
                                       /\ row.stop_id \in DOMAIN stop_name_by_id)

\* Where the j-th retained row belongs: behind the rows with a smaller
\* stop_sequence number and the earlier rows with the same number.
PlaceOf(rows, j) ==
    1 + Cardinality({m \in 1..Len(rows) :
            \/ IntOf(rows[m].stop_sequence) < IntOf(rows[j].stop_sequence)
            \/ /\ IntOf(rows[m].stop_sequence) = IntOf(rows[j].stop_sequence)
               /\ m < j})

\* C6: times_by_trip has one entry per selected trip with retained rows, and
\* it lists the trip's retained rows in ascending order of stop_sequence
\* read as an integer, rows with equal stop_sequence in source order.
C6_NumericOrder ==
    AfterGrouping =>
        /\ \A g \in 1..Len(times_by_trip), h \in 1..Len(times_by_trip) :
              times_by_trip[g].trip_id = times_by_trip[h].trip_id => g = h
        /\ {times_by_trip[g].trip_id : g \in 1..Len(times_by_trip)} =
              {t \in selected_trip_ids : RetainedRows(t) # <<>>}
        /\ \A g \in 1..Len(times_by_trip) :
              LET rows == RetainedRows(times_by_trip[g].trip_id)
              IN  /\ Len(times_by_trip[g].rows) = Len(rows)
                  /\ \A j \in 1..Len(rows) :
                        times_by_trip[g].rows[PlaceOf(rows, j)] =
                          [stop_name |-> stop_name_by_id[rows[j].stop_id],
                           arrival   |-> rows[j].arrival_time,
                           departure |-> rows[j].departure_time]

\* One trip's rows come with stop_sequence "2", "10", "3" and are walked in
\* the order 2, 3, 10.
C6_Witness ==
    /\ AfterGrouping
    /\ Len(stop_times) >= 3
    /\ \A k \in 1..3 : stop_times[k].trip_id = "T1"
    /\ stop_times[1].stop_sequence = Seq2
    /\ stop_times[2].stop_sequence = Seq10
    /\ stop_times[3].stop_sequence = Seq3
    /\ \E g \in 1..Len(times_by_trip) :
          /\ times_by_trip[g].trip_id = "T1"
          /\ Len(times_by_trip[g].rows) >= 3
          /\ times_by_trip[g].rows[1].departure = stop_times[1].departure_time
          /\ times_by_trip[g].rows[2].departure = stop_times[3].departure_time
          /\ times_by_trip[g].rows[3].departure = stop_times[2].departure_time

====
